---- MODULE Spec2Model ----
(***************************************************************************)
(* Greenhouse controller (src/src/main.rs): the control loop of main, the  *)
(* handlers of its match (navigation, edit sessions, the sensor arm with   *)
(* the fire override) and the Preferences methods.                         *)
(*                                                                         *)
(* Units.  Temperatures read by the sensor are held in ninths of a degree  *)
(* Celsius (c9); get_temperature turns them into fifths of a degree        *)
(* Fahrenheit (5 * (C * 9/5 + 32) = c9 + 160).  The temperature band is    *)
(* held in whole degrees Fahrenheit, as the editor changes it by 1.0.      *)
(* Humidity values, band and reading alike, are held in hundredths (0.01): *)
(* the default band (0.6, 0.7) is <<60, 70>> and a reading of 65 percent,  *)
(* which humidity_percent() returns as 65.0, is 6500.                      *)
(*                                                                         *)
(* Specifications.                                                         *)
(*   Spec        the program from boot: the iterations of main's loop.     *)
(*   SpecLive    Spec with the loop's progress (weak fairness).            *)
(*   SpecSensor  the sensor arm of the match (lines 534-584), entered once *)
(*               per poll, from bounded sets of preferences and outputs.   *)
(*   SpecEdit    the SELECT arm of the match (lines 179-533), entered with *)
(*               each screen index, from the boot preferences.             *)
(***************************************************************************)
EXTENDS Integers, Sequences, FiniteSets, TLC

VARIABLES
    up_button, down_button, select_button,  \* input pin levels at the last read
    smoke_detector,                         \* fire input pin level
    ambient,            \* what the sensor would measure now: <<c9, humidity>>
    button_cooldown, current_screen_index, wait_time,   \* main's locals
    action,             \* the RefreshAction should_update returned last
    temperature, humidity, date, watering,  \* the fields of Preferences
    data,               \* FieldData of the last read: <<c9, humidity>>
    sprinklers, roof_vent, buzzer,          \* output pin levels
    roof_open,          \* the vent level remembered by the fire override
    pc,                 \* where main is
    index,              \* pass or sub-field of the running edit session
    editing_lower, update_date, remove,     \* locals of the SELECT arm
    presses             \* Up/Down presses taken in Date sub-loops so far

vars == <<up_button, down_button, select_button, smoke_detector, ambient,
          button_cooldown, current_screen_index, wait_time, action,
          temperature, humidity, date, watering, data,
          sprinklers, roof_vent, buzzer, roof_open,
          pc, index, editing_lower, update_date, remove, presses>>

pins == <<up_button, down_button, select_button, smoke_detector>>
prefs == <<temperature, humidity, date, watering>>
outputs == <<sprinklers, roof_vent, buzzer>>
locals == <<button_cooldown, current_screen_index, wait_time, action>>
session == <<index, editing_lower, update_date, remove>>

----------------------------------------------------------------------------
(* Bounds and program constants *)

MaxDatePresses == 3

CooldownInit == 50
PollPeriod == 100
LastScreen == 4
U16 == 65536

None == <<>>
DefaultTemperature == <<60, 80>>
DefaultHumidity == <<60, 70>>
DefaultDate == <<0, 0, 0, 1, 1, 2000>>
DefaultWatering == <<0, 0, 0, 1>>
DefaultData == <<0, 0>>

\* 0 C = 32 F, 50 F, 60 F, 70 F, 80 F, 85 F
CelsiusReadings == {0, 90, 140, 190, 240, 265}
\* 0 %, 0.65 %, 50 %, 65 %, 80 %
HumidityReadings == {0, 65, 5000, 6500, 8000}
Ambient == CelsiusReadings \X HumidityReadings

----------------------------------------------------------------------------
(* Preferences *)

\* Mutant of is_leap_year: every fourth year.
is_leap_year_julian(year) == year % 4 = 0

is_leap_year(year) ==
    year % 4 = 0 /\ (year % 100 # 0 \/ year % 400 = 0)

days_in_month(month, year) ==
    IF month = 2 THEN (IF is_leap_year(year) THEN 29 ELSE 28)
    ELSE IF month \in {4, 6, 9, 11} THEN 30
    ELSE 31

\* The loop at the end of tick_time, on its locals <<day, month, year>>.
RECURSIVE rollover(_, _, _)
rollover(day, month, year) ==
    IF day > days_in_month(month, year)
    THEN LET m == month + 1
         IN IF m > 12 THEN rollover(day - days_in_month(month, year), 1, year + 1)
            ELSE rollover(day - days_in_month(month, year), m, year)
    ELSE <<day, month, year>>

\* sec, min and hour are copies taken before any field is written; the
\* early returns leave self.date as it is at that point.
tick_time(d) ==
    LET sec == d[1] + 1
        min == d[2]
        hour == d[3]
    IN IF sec < 60 THEN d
       ELSE LET d1 == [d EXCEPT ![2] = d[2] + (sec \div 60), ![1] = sec % 60]
            IN IF min < 60 THEN d1
               ELSE LET d2 == [d1 EXCEPT ![3] = d1[3] + (min \div 60), ![2] = min % 60]
                    IN IF hour < 24 THEN d2
                       ELSE LET d3 == [d2 EXCEPT ![3] = hour % 24]
                                r == rollover(d[4] + (hour \div 24), d[5], d[6])
                            IN <<d3[1], d3[2], d3[3], r[1], r[2], r[3]>>

change_days(d, increment) ==
    LET dim == days_in_month(d[5], d[6])
    IN IF increment THEN (d[4] + 1) % dim
       ELSE (d[4] + (dim - 1)) % dim

\* Mutant of is_watering_time: one chronological interval of the day.
is_watering_time_interval(d, w) ==
    IF w # None
    THEN w[2] * 60 + w[1] <= d[3] * 60 + d[2] /\ d[3] * 60 + d[2] <= w[4] * 60 + w[3]
    ELSE FALSE

\* watering is <<start minute, start hour, end minute, end hour>> or None.
is_watering_time(d, w) ==
    IF w # None
    THEN d[2] >= w[1] /\ d[2] <= w[3] /\ d[3] >= w[2] /\ d[3] <= w[4]
    ELSE FALSE

\* Mutant of set_default_watering_time: the default with the start hour
\* already moved up by one.
set_default_watering_time_adjusted == <<0, 1, 0, 1>>

set_default_watering_time == DefaultWatering

----------------------------------------------------------------------------
(* Free functions *)

\* Fifths of a degree Fahrenheit from ninths of a degree Celsius.
get_temperature(dat) == dat[1] + 160

get_humidity(dat) == dat[2]

\* Mutant of button_usable: usable one tick early.
button_usable_early(cooldown) == cooldown <= 1

button_usable(cooldown) == cooldown = 0

\* The callee's copy after the call; the caller's variable is passed by value.
tick_buttons(cooldown) == IF cooldown > 0 THEN cooldown - 1 ELSE cooldown

\* The index next_screen computes before it converts it to a Screen.
next_screen(i, next) ==
    LET j == i + (IF next THEN 1 ELSE -1)
    IN IF j < 0 THEN LastScreen ELSE IF j > LastScreen THEN 0 ELSE j

\* Mutant of should_update: the Down button is tested before the Up button.
should_update_down_first(up, down, select, w, d) ==
    LET w1 == (w + 1) % U16
        d1 == IF w1 % PollPeriod = 0 THEN tick_time(d) ELSE d
    IN IF down THEN [update |-> TRUE, action |-> "DOWN", date |-> d1, wait_time |-> w1]
       ELSE IF up THEN [update |-> TRUE, action |-> "UP", date |-> d1, wait_time |-> w1]
       ELSE IF select THEN [update |-> TRUE, action |-> "SELECT", date |-> d1, wait_time |-> w1]
       ELSE IF w1 >= PollPeriod
            THEN [update |-> TRUE, action |-> "SENSOR", date |-> d1, wait_time |-> 0]
            ELSE [update |-> FALSE, action |-> "SENSOR", date |-> d1, wait_time |-> w1]

\* should_update on its by-value wait_time w and the date it may tick:
\* the update flag, the action, the date afterwards and the callee's copy
\* of wait_time at return.
should_update(up, down, select, w, d) ==
    LET w1 == (w + 1) % U16
        d1 == IF w1 % PollPeriod = 0 THEN tick_time(d) ELSE d
    IN IF up THEN [update |-> TRUE, action |-> "UP", date |-> d1, wait_time |-> w1]
       ELSE IF down THEN [update |-> TRUE, action |-> "DOWN", date |-> d1, wait_time |-> w1]
       ELSE IF select THEN [update |-> TRUE, action |-> "SELECT", date |-> d1, wait_time |-> w1]
       ELSE IF w1 >= PollPeriod
            THEN [update |-> TRUE, action |-> "SENSOR", date |-> d1, wait_time |-> 0]
            ELSE [update |-> FALSE, action |-> "SENSOR", date |-> d1, wait_time |-> w1]

----------------------------------------------------------------------------
(* The sensor arm of the match: fire override, sensor read, evaluation *)

\* Mutant of vent_open: the bounds themselves open the vent.
vent_open_inclusive(temp, band) == temp <= 5 * band[1] \/ temp >= 5 * band[2]

\* Lines 562-567: temp in fifths of a degree, the band in whole degrees.
vent_open(temp, band) == temp < 5 * band[1] \/ temp > 5 * band[2]

\* Lines 571-576: the level the humidity check writes to the sprinkler pin.
humidity_sprinklers(hum, band) == hum < band[1] \/ hum > band[2]

\* Mutant of sprinkler_level: the watering check only ever switches on.
sprinkler_level_or(hum, band, d, w) ==
    humidity_sprinklers(hum, band) \/ is_watering_time(d, w)

\* Lines 569-583: the humidity check writes the pin, then the watering check
\* writes it again on both of its branches.
sprinkler_level(hum, band, d, w) ==
    LET after_humidity == humidity_sprinklers(hum, band)
        after_watering == IF is_watering_time(d, w) THEN TRUE ELSE FALSE
    IN after_watering

\* Mutant of alarm_exit_vent: the vent is opened whatever was remembered.
alarm_exit_vent_always(was_open, vent) == TRUE

\* Lines 553-555: the vent pin after the alarm, from the remembered level.
alarm_exit_vent(was_open, vent) == IF was_open THEN TRUE ELSE vent

\* Line 535: the arm reads the fire input; smoke_detector' is the level read.
EnterSensorArm ==
    IF smoke_detector'
    THEN roof_open' = roof_vent /\ pc' = "alarm"
    ELSE roof_open' = roof_open /\ pc' = "sense"

\* One evaluation of the while condition at line 539, with the loop body
\* when it reads high and the code after the loop when it reads low.
AlarmLoop ==
    /\ pc = "alarm"
    /\ \E f \in BOOLEAN :
         /\ smoke_detector' = f
         /\ IF f
            THEN /\ sprinklers' = TRUE
                 /\ roof_vent' = FALSE
                 /\ buzzer' = TRUE
                 /\ date' = tick_time(date)
                 /\ pc' = "alarm"
            ELSE /\ buzzer' = FALSE
                 /\ sprinklers' = FALSE
                 /\ roof_vent' = alarm_exit_vent(roof_open, roof_vent)
                 /\ date' = date
                 /\ pc' = "sense"
    /\ UNCHANGED <<up_button, down_button, select_button, ambient, locals,
                   temperature, humidity, watering, data, roof_open, session,
                   presses>>

\* get_bme_data and the evaluation after it.  mode_ok: set_sensor_mode
\* succeeded in prep_bme; read_ok: get_sensor_data returned a reading.
SenseEvaluate ==
    /\ pc = "sense"
    /\ \E a \in Ambient, mode_ok \in BOOLEAN, read_ok \in BOOLEAN :
         /\ ambient' = a
         /\ IF ~mode_ok
            THEN /\ pc' = "blink"
                 /\ buzzer' = TRUE
                 /\ UNCHANGED <<data, roof_vent, sprinklers>>
            ELSE /\ data' = IF read_ok THEN a ELSE DefaultData
                 /\ roof_vent' = vent_open(get_temperature(data'), temperature)
                 /\ sprinklers' = sprinkler_level(get_humidity(data'), humidity,
                                                  date, watering)
                 /\ pc' = "main"
                 /\ UNCHANGED buzzer
    /\ UNCHANGED <<pins, locals, prefs, roof_open, session, presses>>

\* Mutant of Blink: the buzzer is switched off and stays off.
Blink_silent ==
    /\ pc = "blink"
    /\ buzzer' = FALSE
    /\ UNCHANGED <<pins, ambient, locals, prefs, data, sprinklers, roof_vent,
                   roof_open, pc, session, presses>>

\* The loop of prep_bme: the buzzer pin is set high, then low, for ever.
Blink ==
    /\ pc = "blink"
    /\ buzzer' = ~buzzer
    /\ UNCHANGED <<pins, ambient, locals, prefs, data, sprinklers, roof_vent,
                   roof_open, pc, session, presses>>

\* The arm entered for one poll.
SensorPoll ==
    /\ pc = "main"
    /\ \E f \in BOOLEAN : smoke_detector' = f
    /\ EnterSensorArm
    /\ UNCHANGED <<up_button, down_button, select_button, ambient, locals,
                   prefs, data, outputs, session, presses>>

----------------------------------------------------------------------------
(* The SELECT arm of the match: the edit sessions *)

\* Lines 205-226: Up and Down on the active bound of the temperature band.
temperature_up(band, lower) ==
    IF lower THEN (IF band[1] < 1 THEN <<band[1] + 1, band[2]>> ELSE band)
    ELSE (IF band[2] < 1 THEN <<band[1], band[2] + 1>> ELSE band)

temperature_down(band, lower) ==
    IF lower THEN (IF band[1] > 0 THEN <<band[1] - 1, band[2]>> ELSE band)
    ELSE (IF band[2] > 0 THEN <<band[1], band[2] - 1>> ELSE band)

\* Lines 260-281: the same on the humidity band, by 0.01 below 1.0.  The f32
\* sums are taken as exact hundredths.
humidity_up(band, lower) ==
    IF lower THEN (IF band[1] < 100 THEN <<band[1] + 1, band[2]>> ELSE band)
    ELSE (IF band[2] < 100 THEN <<band[1], band[2] + 1>> ELSE band)

humidity_down(band, lower) ==
    IF lower THEN (IF band[1] > 0 THEN <<band[1] - 1, band[2]>> ELSE band)
    ELSE (IF band[2] > 0 THEN <<band[1], band[2] - 1>> ELSE band)

\* Mutant of normalize_band: no legality check.
normalize_band_skip(band) == band

\* Lines 235-240 and 290-295: "Check legality".
normalize_band(band) ==
    IF band[1] > band[2] THEN <<band[2], band[1]>> ELSE band

\* Mutant of date_press: Up on minute 59 carries into the hour.
date_press_cascade(d, field, up) ==
    CASE field = "edit_minute" ->
           [d EXCEPT ![2] = IF up THEN (d[2] + 1) % 60 ELSE (d[2] + 59) % 60,
                     ![3] = IF up /\ d[2] = 59 THEN (d[3] + 1) % 24 ELSE d[3]]
      [] field = "edit_hour" ->
           [d EXCEPT ![3] = IF up THEN (d[3] + 1) % 24 ELSE (d[3] + 23) % 24]
      [] field = "edit_day" ->
           [d EXCEPT ![4] = change_days(d, up)]
      [] field = "edit_month" ->
           [d EXCEPT ![5] = IF up THEN (d[5] + 1) % 12 ELSE (d[5] + 11) % 12]
      [] field = "edit_year" ->
           [d EXCEPT ![6] = IF up THEN (d[6] + 1) % U16
                            ELSE IF d[6] # 0 THEN d[6] - 1 ELSE d[6]]

\* Lines 316-321, 343-348, 370-375, 399-404, 426-435: a press in the Date
\* sub-loop that pc names.  The year is a u16; MaxDatePresses keeps it far from
\* the limit, where the build decides between a panic and a wrap.
date_press(d, field, up) ==
    CASE field = "edit_minute" ->
           [d EXCEPT ![2] = IF up THEN (d[2] + 1) % 60 ELSE (d[2] + 59) % 60]
      [] field = "edit_hour" ->
           [d EXCEPT ![3] = IF up THEN (d[3] + 1) % 24 ELSE (d[3] + 23) % 24]
      [] field = "edit_day" ->
           [d EXCEPT ![4] = change_days(d, up)]
      [] field = "edit_month" ->
           [d EXCEPT ![5] = IF up THEN (d[5] + 1) % 12 ELSE (d[5] + 11) % 12]
      [] field = "edit_year" ->
           [d EXCEPT ![6] = IF up THEN (d[6] + 1) % U16
                            ELSE IF d[6] # 0 THEN d[6] - 1 ELSE d[6]]

\* The sub-loop entered when Select ends the one that pc names.
date_next(field) ==
    CASE field = "edit_minute" -> "edit_hour"
      [] field = "edit_hour" -> "edit_day"
      [] field = "edit_day" -> "edit_month"
      [] field = "edit_month" -> "edit_year"
      [] field = "edit_year" -> "main"

DateLoops == {"edit_minute", "edit_hour", "edit_day", "edit_month", "edit_year"}

\* Lines 470-484 and 491-505: the press writes a field of the tuple that
\* unwrap() returned, a copy; preferences.watering keeps its value.
watering_press(w, i, up) == w

\* Mutant of normalize_watering: only the hours are compared.
normalize_watering_hours_only(w) ==
    IF w[2] > w[4] THEN <<w[3], w[4], w[1], w[2]>> ELSE w

\* Lines 519-525: "Check legality" of a window that is set.
normalize_watering(w) ==
    IF w[2] > w[4] \/ (w[2] = w[4] /\ w[1] > w[3])
    THEN <<w[3], w[4], w[1], w[2]>>
    ELSE w

\* Mutant of EnterEdit: the last arm of the match takes every other index.
EnterEdit_last_arm ==
    /\ editing_lower' = TRUE
    /\ update_date' = FALSE
    /\ index' = 0
    /\ remove' = FALSE
    /\ pc' = CASE current_screen_index = 0 -> "edit_temp"
               [] current_screen_index = 1 -> "edit_humidity"
               [] current_screen_index = 3 -> "edit_minute"
               [] OTHER -> "edit_watering"

\* Lines 182-186: the locals of the arm and the match on the screen index.
EnterEdit ==
    /\ editing_lower' = TRUE
    /\ update_date' = FALSE
    /\ index' = 0
    /\ remove' = FALSE
    /\ pc' = CASE current_screen_index = 0 -> "edit_temp"
               [] current_screen_index = 1 -> "edit_humidity"
               [] current_screen_index = 3 -> "edit_minute"
               [] current_screen_index = 4 -> "edit_watering"
               [] OTHER -> "main"

\* Mutant of session_tick: the calendar is ticked on every iteration.
session_tick_always(d, flag) == tick_time(d)

\* Lines 200-203 and their copies: the date after this iteration's tick.
session_tick(d, flag) == IF flag THEN tick_time(d) ELSE d

\* Mutant of EditTemperature: the iteration sounds the buzzer on a high
\* smoke detector.
EditTemperature_fire_checked ==
    /\ pc = "edit_temp"
    /\ \E u \in BOOLEAN, d \in BOOLEAN, s \in BOOLEAN :
         /\ up_button' = u /\ down_button' = d /\ select_button' = s
         /\ date' = session_tick(date, update_date)
         /\ update_date' = ~update_date
         /\ IF u THEN /\ temperature' = temperature_up(temperature, editing_lower)
                      /\ UNCHANGED <<editing_lower, index, pc>>
            ELSE IF d THEN /\ temperature' = temperature_down(temperature, editing_lower)
                           /\ UNCHANGED <<editing_lower, index, pc>>
            ELSE IF s THEN /\ editing_lower' = FALSE
                           /\ IF index = 0
                              THEN /\ index' = 1
                                   /\ UNCHANGED <<temperature, pc>>
                              ELSE /\ temperature' = normalize_band(temperature)
                                   /\ pc' = "main"
                                   /\ UNCHANGED index
            ELSE UNCHANGED <<temperature, editing_lower, index, pc>>
    /\ buzzer' = smoke_detector
    /\ UNCHANGED <<smoke_detector, ambient, locals, humidity, watering, data,
                   sprinklers, roof_vent, roof_open, remove, presses>>

\* One iteration of the loop at lines 190-233, with the end of the for loop
\* and the legality check when Select ends the second pass.
EditTemperature ==
    /\ pc = "edit_temp"
    /\ \E u \in BOOLEAN, d \in BOOLEAN, s \in BOOLEAN :
         /\ up_button' = u /\ down_button' = d /\ select_button' = s
         /\ date' = session_tick(date, update_date)
         /\ update_date' = ~update_date
         /\ IF u THEN /\ temperature' = temperature_up(temperature, editing_lower)
                      /\ UNCHANGED <<editing_lower, index, pc>>
            ELSE IF d THEN /\ temperature' = temperature_down(temperature, editing_lower)
                           /\ UNCHANGED <<editing_lower, index, pc>>
            ELSE IF s THEN /\ editing_lower' = FALSE
                           /\ IF index = 0
                              THEN /\ index' = 1
                                   /\ UNCHANGED <<temperature, pc>>
                              ELSE /\ temperature' = normalize_band(temperature)
                                   /\ pc' = "main"
                                   /\ UNCHANGED index
            ELSE UNCHANGED <<temperature, editing_lower, index, pc>>
    /\ UNCHANGED <<smoke_detector, ambient, locals, humidity, watering, data,
                   outputs, roof_open, remove, presses>>

\* One iteration of the loop at lines 245-288, likewise.
EditHumidity ==
    /\ pc = "edit_humidity"
    /\ \E u \in BOOLEAN, d \in BOOLEAN, s \in BOOLEAN :
         /\ up_button' = u /\ down_button' = d /\ select_button' = s
         /\ date' = session_tick(date, update_date)
         /\ update_date' = ~update_date
         /\ IF u THEN /\ humidity' = humidity_up(humidity, editing_lower)
                      /\ UNCHANGED <<editing_lower, index, pc>>
            ELSE IF d THEN /\ humidity' = humidity_down(humidity, editing_lower)
                           /\ UNCHANGED <<editing_lower, index, pc>>
            ELSE IF s THEN /\ editing_lower' = FALSE
                           /\ IF index = 0
                              THEN /\ index' = 1
                                   /\ UNCHANGED <<humidity, pc>>
                              ELSE /\ humidity' = normalize_band(humidity)
                                   /\ pc' = "main"
                                   /\ UNCHANGED index
            ELSE UNCHANGED <<humidity, editing_lower, index, pc>>
    /\ UNCHANGED <<smoke_detector, ambient, locals, temperature, watering, data,
                   outputs, roof_open, remove, presses>>

\* One iteration of one of the five loops at lines 301-440.  The operator
\* presses Up or Down in these loops at most MaxDatePresses times.
EditDate ==
    /\ pc \in DateLoops
    /\ \E u \in BOOLEAN, d \in BOOLEAN, s \in BOOLEAN :
         /\ (u \/ d) => presses < MaxDatePresses
         /\ up_button' = u /\ down_button' = d /\ select_button' = s
         /\ update_date' = ~update_date
         /\ IF u THEN /\ date' = date_press(session_tick(date, update_date), pc, TRUE)
                      /\ presses' = presses + 1
                      /\ UNCHANGED pc
            ELSE IF d THEN /\ date' = date_press(session_tick(date, update_date), pc, FALSE)
                           /\ presses' = presses + 1
                           /\ UNCHANGED pc
            ELSE IF s THEN /\ date' = session_tick(date, update_date)
                           /\ pc' = date_next(pc)
                           /\ UNCHANGED presses
            ELSE /\ date' = session_tick(date, update_date)
                 /\ UNCHANGED <<pc, presses>>
    /\ UNCHANGED <<smoke_detector, ambient, locals, temperature, humidity,
                   watering, data, outputs, roof_open, index, editing_lower,
                   remove>>

\* One iteration of the loop at lines 447-512, with the end of the for loop
\* and the legality check (lines 513-526) when the iteration leaves it.
\* unwrap() of an unset window panics, and panic_halt stops the program.
EditWatering ==
    /\ pc = "edit_watering"
    /\ \E u \in BOOLEAN, d \in BOOLEAN, s \in BOOLEAN :
         /\ up_button' = u /\ down_button' = d /\ select_button' = s
         /\ date' = session_tick(date, update_date)
         /\ update_date' = ~update_date
         /\ IF u /\ d
            THEN /\ remove' = TRUE
                 /\ pc' = "main"
                 /\ UNCHANGED <<watering, index>>
            ELSE IF u \/ d
            THEN /\ watering' = IF watering = None THEN set_default_watering_time
                                ELSE watering_press(watering, index, u)
                 /\ UNCHANGED <<remove, index, pc>>
            ELSE IF s
            THEN IF index < 3
                 THEN /\ index' = index + 1
                      /\ UNCHANGED <<watering, remove, pc>>
                 ELSE IF watering = None
                      THEN /\ pc' = "panic"
                           /\ UNCHANGED <<watering, remove, index>>
                      ELSE /\ watering' = normalize_watering(watering)
                           /\ pc' = "main"
                           /\ UNCHANGED <<remove, index>>
            ELSE UNCHANGED <<watering, remove, index, pc>>
    /\ UNCHANGED <<smoke_detector, ambient, locals, temperature, humidity, data,
                   outputs, roof_open, editing_lower, presses>>

\* The arm entered by a Select press.
Select ==
    /\ pc = "main"
    /\ up_button' = FALSE /\ down_button' = FALSE /\ select_button' = TRUE
    /\ action' = "SELECT"
    /\ EnterEdit
    /\ UNCHANGED <<smoke_detector, ambient, button_cooldown, current_screen_index,
                   wait_time, prefs, data, outputs, roof_open, presses>>

----------------------------------------------------------------------------
(* main: the loop at lines 157-626 *)

\* Lines 167-178: the UP and DOWN arms.  next_screen gets the index by value
\* and its result is dropped; current_screen_index is an immutable binding.
NavigateArm(next) ==
    /\ button_cooldown' = IF button_usable(button_cooldown) THEN CooldownInit
                          ELSE button_cooldown
    /\ current_screen_index' =
         LET shown == next_screen(current_screen_index, next)
         IN current_screen_index
    /\ UNCHANGED <<pc, roof_open, session>>

\* Lines 179-533: the SELECT arm.
SelectArm ==
    /\ IF button_usable(button_cooldown)
       THEN EnterEdit
       ELSE UNCHANGED <<pc, session>>
    /\ UNCHANGED <<button_cooldown, current_screen_index, roof_open>>

\* Lines 534-584: the arm of RefreshAction::SENSOR.
SensorArm ==
    /\ EnterSensorArm
    /\ UNCHANGED <<button_cooldown, current_screen_index, session>>

\* One iteration of the loop up to the match: the delay, tick_buttons on a
\* copy of button_cooldown, should_update on a copy of wait_time, and the
\* arm the match selects.  The pins and the air take any level meanwhile.
MainLoop ==
    /\ pc = "main"
    /\ \E u \in BOOLEAN, d \in BOOLEAN, s \in BOOLEAN, f \in BOOLEAN, a \in Ambient :
         /\ up_button' = u /\ down_button' = d /\ select_button' = s
         /\ smoke_detector' = f
         /\ ambient' = a
         /\ LET ticked == tick_buttons(button_cooldown)
                r == should_update(u, d, s, wait_time, date)
            IN /\ date' = r.date
               /\ wait_time' = wait_time
               /\ action' = r.action
               /\ IF ~r.update
                  THEN UNCHANGED <<button_cooldown, current_screen_index, pc,
                                   roof_open, session>>
                  ELSE CASE r.action = "UP" -> NavigateArm(TRUE)
                         [] r.action = "DOWN" -> NavigateArm(FALSE)
                         [] r.action = "SELECT" -> SelectArm
                         [] OTHER -> SensorArm
    /\ UNCHANGED <<temperature, humidity, watering, data, outputs, presses>>

----------------------------------------------------------------------------
(* Initial states and specifications *)

\* The state when the loop is first entered (lines 73, 138-152).
Init ==
    /\ up_button = FALSE /\ down_button = FALSE /\ select_button = FALSE
    /\ smoke_detector = FALSE
    /\ ambient \in Ambient
    /\ button_cooldown = CooldownInit
    /\ current_screen_index = 0
    /\ wait_time = 0
    /\ action = "SENSOR"
    /\ temperature = DefaultTemperature
    /\ humidity = DefaultHumidity
    /\ date = DefaultDate
    /\ watering = None
    /\ data = DefaultData
    /\ sprinklers = FALSE /\ roof_vent = FALSE /\ buzzer = FALSE
    /\ roof_open = FALSE
    /\ pc = "main"
    /\ index = 0 /\ editing_lower = TRUE /\ update_date = FALSE /\ remove = FALSE
    /\ presses = 0

Next == MainLoop

Spec == Init /\ [][Next]_vars

\* The loop never stops iterating.
SpecLive == Init /\ [][Next]_vars /\ WF_vars(MainLoop)

\* The loop entered with the cooldown expired or one tick from it; from boot
\* the counter keeps its first value (CooldownInit).
LoopCooldowns == {0, 1}

InitLoop ==
    /\ up_button = FALSE /\ down_button = FALSE /\ select_button = FALSE
    /\ smoke_detector = FALSE
    /\ ambient \in Ambient
    /\ button_cooldown \in LoopCooldowns
    /\ current_screen_index = 0
    /\ wait_time = 0
    /\ action = "SENSOR"
    /\ temperature = DefaultTemperature
    /\ humidity = DefaultHumidity
    /\ date = DefaultDate
    /\ watering = None
    /\ data = DefaultData
    /\ sprinklers = FALSE /\ roof_vent = FALSE /\ buzzer = FALSE
    /\ roof_open = FALSE
    /\ pc = "main"
    /\ index = 0 /\ editing_lower = TRUE /\ update_date = FALSE /\ remove = FALSE
    /\ presses = 0

SpecLoop == InitLoop /\ [][Next]_vars

\* Preferences and pin levels the sensor arm is entered with.  The bands are
\* ones the editors can leave; the windows are the unset one, the default,
\* one within a day, and one with its end before its start.
SensorTemperatures == {<<60, 80>>, <<59, 60>>, <<0, 0>>}
SensorHumidities == {<<60, 70>>, <<0, 100>>}
SensorWaterings == {None, DefaultWatering, <<30, 8, 45, 17>>, <<0, 22, 0, 6>>}
SensorDates == {DefaultDate, <<0, 0, 23, 1, 1, 2000>>, <<0, 30, 8, 1, 1, 2000>>,
                <<0, 0, 12, 1, 1, 2000>>, <<0, 45, 17, 28, 2, 2001>>}

InitSensor ==
    /\ up_button = FALSE /\ down_button = FALSE /\ select_button = FALSE
    /\ smoke_detector = FALSE
    /\ ambient = DefaultData
    /\ button_cooldown = CooldownInit
    /\ current_screen_index = 0
    /\ wait_time = 0
    /\ action = "SENSOR"
    /\ temperature \in SensorTemperatures
    /\ humidity \in SensorHumidities
    /\ date \in SensorDates
    /\ watering \in SensorWaterings
    /\ data = DefaultData
    /\ sprinklers \in BOOLEAN /\ roof_vent \in BOOLEAN /\ buzzer = FALSE
    /\ roof_open = FALSE
    /\ pc = "main"
    /\ index = 0 /\ editing_lower = TRUE /\ update_date = FALSE /\ remove = FALSE
    /\ presses = 0

NextSensor == SensorPoll \/ AlarmLoop \/ SenseEvaluate \/ Blink

SpecSensor == InitSensor /\ [][NextSensor]_vars

\* The sensor arm with the program running on: an enabled step of the arm,
\* the pass of the loop in prep_bme among them, is eventually taken.
SpecSensorLive == SpecSensor /\ WF_vars(NextSensor)

\* The windows a WateringWindow session is entered with: unset (as at boot),
\* one in order, one with its start after its end by the hour and one by the
\* minute.  The field is public; the presses of the session itself leave a
\* window unset or at the default, which the session reaches from unset.
EditWaterings == {None, <<30, 8, 45, 17>>, <<0, 22, 0, 6>>, <<30, 8, 0, 8>>}

\* The dates a session is entered with: the boot default, and the last second
\* of its first minute, where the next tick_time carries into the minute.
EditDates == {DefaultDate, <<59, 0, 0, 1, 1, 2000>>}

\* The smoke detector pin reads low or high when Select is accepted, and the
\* SELECT arm never reads it.  The boot state with each of the five screens current, and the windows
\* above on the WateringWindow screen.
InitEdit ==
    /\ up_button = FALSE /\ down_button = FALSE /\ select_button = FALSE
    /\ smoke_detector \in BOOLEAN
    /\ ambient = DefaultData
    /\ button_cooldown = CooldownInit
    /\ current_screen_index \in 0..LastScreen
    /\ wait_time = 0
    /\ action = "SENSOR"
    /\ temperature = DefaultTemperature
    /\ humidity = DefaultHumidity
    /\ date \in EditDates
    /\ watering \in IF current_screen_index = LastScreen THEN EditWaterings ELSE {None}
    /\ data = DefaultData
    /\ sprinklers = FALSE /\ roof_vent = FALSE /\ buzzer = FALSE
    /\ roof_open = FALSE
    /\ pc = "main"
    /\ index = 0 /\ editing_lower = TRUE /\ update_date = FALSE /\ remove = FALSE
    /\ presses = 0

NextEdit == Select \/ EditTemperature \/ EditHumidity \/ EditDate \/ EditWatering

SpecEdit == InitEdit /\ [][NextEdit]_vars

\* The dates a DateTime session is entered with: the boot default, and the
\* first (index 0) and the 28th day of the month the code takes for February
\* in years on both sides of every clause of the leap-year rule.  Each is a
\* date Up and Down presses of earlier sessions leave.
CalendarYears == {0, 4, 100, 400, 1900, 2000, 2023, 2024, 2100, 64800, 65000}
CalendarDates ==
    EditDates \cup {<<0, 0, 0, d, 2, y>> : d \in {0, 27}, y \in CalendarYears}

\* The SELECT arm just entered on the DateTime screen.
InitCalendar ==
    /\ up_button = FALSE /\ down_button = FALSE /\ select_button = TRUE
    /\ smoke_detector = FALSE
    /\ ambient = DefaultData
    /\ button_cooldown = CooldownInit
    /\ current_screen_index = 3
    /\ wait_time = 0
    /\ action = "SELECT"
    /\ temperature = DefaultTemperature
    /\ humidity = DefaultHumidity
    /\ date \in CalendarDates
    /\ watering = None
    /\ data = DefaultData
    /\ sprinklers = FALSE /\ roof_vent = FALSE /\ buzzer = FALSE
    /\ roof_open = FALSE
    /\ pc = "edit_minute"
    /\ index = 0 /\ editing_lower = TRUE /\ update_date = FALSE /\ remove = FALSE
    /\ presses = 0

NextCalendar == EditDate

SpecCalendar == InitCalendar /\ [][NextCalendar]_vars

----------------------------------------------------------------------------
(* Properties *)

\* An evaluation pass has just ended: get_bme_data returned and the three
\* checks at lines 560-583 wrote the pins.
EvaluationStep == pc = "sense" /\ pc' = "main"

\* C1: while the fire input reads high, the sprinkler output is high and the
\* vent output is low, in every state.
FireForcesPosture == smoke_detector => (sprinklers /\ ~roof_vent)

\* C2: an iteration of the outer loop in Viewing at which the fire input
\* reads high enters the Alarm state in that same iteration.
FirePreemptsEveryIteration ==
    [][(pc = "main" /\ smoke_detector') => pc' = "alarm"]_vars

\* C3: the vent level is remembered when the Alarm state is entered and kept
\* while it lasts, and when the fire input reads low and Alarm is left the
\* vent output is that remembered pre-alarm level, with the buzzer off and
\* the sprinkler off.
AlarmExitRestoresVent ==
    [][/\ (pc = "main" /\ pc' = "alarm") => roof_open' = roof_vent
       /\ (pc = "alarm" /\ pc' = "alarm") => roof_open' = roof_open
       /\ (pc = "alarm" /\ pc' = "sense") =>
              (roof_vent' = roof_open /\ ~buzzer' /\ ~sprinklers')]_vars

\* C3 witness: Alarm was entered with the vent open and has been left; the
\* vent is open again, buzzer and sprinkler are off.
AlarmLeftVentReopened ==
    pc = "sense" /\ roof_open /\ roof_vent /\ ~buzzer /\ ~sprinklers
    /\ ~smoke_detector

\* The calendar one second after d (Gregorian, fields as in Preferences.date).
one_second_later(d) ==
    IF d[1] < 59 THEN [d EXCEPT ![1] = d[1] + 1]
    ELSE IF d[2] < 59 THEN [d EXCEPT ![1] = 0, ![2] = d[2] + 1]
    ELSE IF d[3] < 23 THEN [d EXCEPT ![1] = 0, ![2] = 0, ![3] = d[3] + 1]
    ELSE IF d[4] < days_in_month(d[5], d[6]) THEN <<0, 0, 0, d[4] + 1, d[5], d[6]>>
    ELSE IF d[5] < 12 THEN <<0, 0, 0, 1, d[5] + 1, d[6]>>
    ELSE <<0, 0, 0, 1, 1, d[6] + 1>>

\* C4: each call of tick() advances the Calendar by exactly one second.  An
\* iteration of the alarm loop calls it once and writes the date nowhere else.
TickAdvancesOneSecond ==
    [][(pc = "alarm" /\ pc' = "alarm") => date' = one_second_later(date)]_vars

\* C5: the Calendar is normalized in every state reached by ticks and Date
\* edits from the boot default.
CalendarNormalized ==
    /\ date[1] \in 0..59
    /\ date[2] \in 0..59
    /\ date[3] \in 0..23
    /\ date[5] \in 1..12
    /\ date[4] \in 1..days_in_month(date[5], date[6])

\* C6: after an evaluation pass the vent is open exactly when the Fahrenheit
\* temperature is below the band's low bound or above its high bound; with
\* the band (60, 80), 85 F opens it, 70 F closes it, and 60 F and 80 F keep
\* it closed.
VentFollowsTemperature ==
    [][EvaluationStep =>
         LET f5 == get_temperature(data')
         IN /\ roof_vent' <=> (f5 < 5 * temperature[1] \/ f5 > 5 * temperature[2])
            /\ (temperature = <<60, 80>> /\ data'[1] = 265) => roof_vent'
            /\ (temperature = <<60, 80>> /\ data'[1] = 190) => ~roof_vent'
            /\ (temperature = <<60, 80>> /\ data'[1] \in {140, 240}) => ~roof_vent']_vars

\* C6 witness: a pass read 85 F under the band (60, 80) and the vent is open.
VentOpenedAt85 ==
    pc = "main" /\ temperature = <<60, 80>> /\ data[1] = 265 /\ roof_vent

\* C7: after an evaluation pass the sprinkler is on if and only if the
\* humidity reading is outside the humidity band or is_watering_time holds.
SprinklerIsHumidityOrSchedule ==
    [][EvaluationStep =>
         (sprinklers' <=> (\/ get_humidity(data') < humidity[1]
                           \/ get_humidity(data') > humidity[2]
                           \/ is_watering_time(date, watering)))]_vars

BandNormalizedAfterSession ==
    [][/\ (pc = "edit_temp" /\ pc' = "main") =>
              /\ temperature'[1] <= temperature'[2]
              /\ {temperature'[1], temperature'[2]} = {temperature[1], temperature[2]}
       /\ (pc = "edit_humidity" /\ pc' = "main") =>
              /\ humidity'[1] <= humidity'[2]
              /\ {humidity'[1], humidity'[2]} = {humidity[1], humidity[2]}]_vars

\* C9 witness: a Temperature session has completed and left the band
\* (59, 60): the upper bound was taken down to or below the lower one.
TemperatureSessionDone ==
    pc = "main" /\ current_screen_index = 0 /\ ~editing_lower /\ index = 1
    /\ temperature = <<59, 60>>

\* C10: navigation steps through the five screens; a Down button held from
\* boot moves the current screen away from index 0.
HeldDownLeavesScreenZero ==
    <>[](down_button /\ ~up_button) => <>(current_screen_index # 0)

\* C11: the debounce cooldown counter goes down by one on every iteration of
\* the outer loop while it is above zero, whatever the buttons read.
CooldownCountsDown ==
    [][(pc = "main" /\ button_cooldown > 0)
         => button_cooldown' = button_cooldown - 1]_vars

\* C12: an Up or Down navigation is accepted, and the cooldown counter set
\* back to 50, only in an iteration that finds the counter at zero; with the
\* counter above zero the press changes neither counter nor screen.
NavigationOnlyAtZero ==
    [][pc = "main" =>
         /\ (button_cooldown' # button_cooldown) =>
               /\ button_cooldown = 0
               /\ action' \in {"UP", "DOWN"}
               /\ button_cooldown' = 50
         /\ (action' \in {"UP", "DOWN"} /\ button_cooldown = 0) =>
               button_cooldown' = 50
         /\ (action' \in {"UP", "DOWN"} /\ button_cooldown > 0) =>
               UNCHANGED <<button_cooldown, current_screen_index, pc>>]_vars

\* C12 witness: a Down press found the counter at zero and the counter is
\* back at 50.
DownAcceptedAtZero ==
    pc = "main" /\ action = "DOWN" /\ down_button /\ ~up_button
    /\ button_cooldown = 50

\* C13: when more than one button reads high in an iteration of the outer
\* loop, one action is selected, with priority Up, then Down, then Select.
ButtonPriority ==
    [][pc = "main" =>
         /\ up_button' => action' = "UP"
         /\ (~up_button' /\ down_button') => action' = "DOWN"
         /\ (~up_button' /\ ~down_button' /\ select_button') => action' = "SELECT"]_vars

\* C13 witness: all three buttons read high and Up was selected.
UpWonOverBoth ==
    pc = "main" /\ up_button /\ down_button /\ select_button /\ action = "UP"

\* C14: in a WateringWindow edit session, Up and Down read high together end
\* the session with the watering window unset.
DeleteGestureUnsetsWindow ==
    [][(pc = "edit_watering" /\ up_button' /\ down_button')
         => (pc' = "main" /\ watering' = None)]_vars

\* C15: when a WateringWindow edit session ends without the delete gesture
\* and with a window set, (start hour, start minute) <= (end hour, end
\* minute) in lexicographic order, and the two endpoints are the two the
\* window had before the legality check.
WateringOrderedAfterSession ==
    [][(pc = "edit_watering" /\ pc' = "main" /\ ~remove' /\ watering' # None) =>
         /\ \/ watering'[2] < watering'[4]
            \/ (watering'[2] = watering'[4] /\ watering'[1] <= watering'[3])
         /\ {<<watering'[1], watering'[2]>>, <<watering'[3], watering'[4]>>}
              = {<<watering[1], watering[2]>>, <<watering[3], watering[4]>>}]_vars

\* C15 witness: a session entered with the window 22:00 to 06:00 has ended
\* on the fourth Select and left 06:00 to 22:00.
WateringSwappedAfterSession ==
    pc = "main" /\ current_screen_index = 4 /\ index = 3 /\ ~remove
    /\ select_button /\ watering = <<0, 6, 0, 22>>

\* C16: accepting Select in Viewing on the Pressure screen enters no edit
\* session and leaves the temperature band, the humidity band, the watering
\* window, the current screen and the actuator outputs unchanged.
PressureSelectIsNoOp ==
    [][(pc = "main" /\ current_screen_index = 2 /\ action' = "SELECT") =>
         /\ pc' = "main"
         /\ UNCHANGED <<temperature, humidity, watering, current_screen_index,
                        sprinklers, roof_vent, buzzer>>]_vars

\* C16 witness: Select has been accepted on the Pressure screen.
SelectTakenOnPressure ==
    pc = "main" /\ current_screen_index = 2 /\ select_button /\ action = "SELECT"

\* C17: is_leap_year(y) is true exactly when y is divisible by 4 and not by
\* 100, or divisible by 400; 1900, 2023 and 2100 are not leap years, 2000 and
\* 2024 are.  An Up press in the Day sub-loop on the 28th day of February
\* (index 27) moves to a 29th day exactly in a leap year and wraps otherwise.
LeapYearGregorian ==
    [][(pc = "edit_day" /\ pc' = "edit_day" /\ up_button'
          /\ date[5] = 2 /\ date[4] = 27) =>
         LET y == date[6]
             leap == (y % 400 = 0) \/ (y % 4 = 0 /\ y % 100 # 0)
         IN /\ date'[4] = IF leap THEN 28 ELSE 0
            /\ y \in {1900, 2023, 2100} => date'[4] = 0
            /\ y \in {2000, 2024} => date'[4] = 28]_vars

\* C17 witness: an Up press has moved February 2000 to its 29th day.
LeapDayReached2000 ==
    pc = "edit_day" /\ up_button /\ date = <<0, 0, 0, 28, 2, 2000>>

\* C18: while no button is pressed the sensor poll countdown expires again
\* and again, so the sensor arm (fire check, acquisition, evaluation, render)
\* is entered infinitely often.
SensorPollRecurs ==
    <>[](~up_button /\ ~down_button /\ ~select_button) => []<>(pc # "main")

\* C19: in Viewing the calendar is ticked every 100 iterations of the outer
\* loop, so the date moves on from its boot value.
ClockAdvancesInViewing == <>(date # DefaultDate)

HumidityBandInPercent ==
    [][(EvaluationStep /\ humidity = DefaultHumidity) =>
         LET on == humidity_sprinklers(get_humidity(data'), humidity)
         IN /\ data'[2] = 6500 => ~on
            /\ data'[2] \in {5000, 8000} => on]_vars

\* C22: in a Temperature or Humidity session an Up press raises the active
\* bound by one unit and a Down press lowers it by one unit (away from the
\* ends 0 and 1.0 where the humidity presses are clamped, and from 0 for
\* temperature Down), the first pass has the lower bound active and the
\* second the upper bound, and the inactive bound keeps its value.
PressMovesActiveBound ==
    [][LET act == IF index = 0 THEN 1 ELSE 2
           step == IF up_button' THEN 1 ELSE -1
       IN /\ (pc = "edit_temp" /\ (up_button' \/ down_button')
                /\ temperature[act] > 0) =>
                 /\ temperature'[act] = temperature[act] + step
                 /\ temperature'[3 - act] = temperature[3 - act]
          /\ (pc = "edit_humidity" /\ (up_button' \/ down_button')
                /\ humidity[act] > 0 /\ humidity[act] < 100) =>
                 /\ humidity'[act] = humidity[act] + step
                 /\ humidity'[3 - act] = humidity[3 - act]]_vars

\* C23: with a window set, an Up or Down press in a WateringWindow sub-field
\* changes one stored field of the window by +1 or -1 with wraparound (hours
\* modulo 24, minutes modulo 60) and leaves the other three fields unchanged.
WateringPressMovesOneField ==
    [][(pc = "edit_watering" /\ watering # None /\ up_button' # down_button') =>
         \E i \in 1..4 :
            LET range == IF i \in {2, 4} THEN 24 ELSE 60
                step == IF up_button' THEN 1 ELSE range - 1
            IN watering' = [watering EXCEPT ![i] = (watering[i] + step) % range]]_vars

\* C24 as stated: a press on an unset window materializes the default window
\* and then moves the current sub-field of it by one.
FirstPressAdjustsDefault ==
    [][(pc = "edit_watering" /\ watering = None /\ up_button' # down_button') =>
         \E i \in 1..4 :
            LET range == IF i \in {2, 4} THEN 24 ELSE 60
                step == IF up_button' THEN 1 ELSE range - 1
            IN watering' = [DefaultWatering EXCEPT ![i] = (DefaultWatering[i] + step) % range]]_vars

\* C24: a press on an unset window materializes the default window, start
\* 00:00 and end 01:00, and adjusts nothing; the session stays in the same
\* sub-field.
FirstPressMaterializesDefault ==
    [][(pc = "edit_watering" /\ watering = None /\ up_button' # down_button') =>
         /\ watering' = <<0, 0, 0, 1>>
         /\ UNCHANGED <<pc, index, remove>>]_vars

\* C24 witness: a session entered with the window unset holds the default
\* window after a press.
DefaultWindowMaterialized ==
    pc = "edit_watering" /\ watering = <<0, 0, 0, 1>>
    /\ up_button # down_button

\* C25: a WateringWindow session never fails.
WateringSessionNeverFails == pc # "panic"

\* C26: a press in the Day sub-loop, on a day of the month, gives a day of
\* the month again: Up from the last day gives day 1, Down from day 1 gives
\* the last day, and no press gives day 0 or a day past the month's length.
DayEditStaysInMonth ==
    [][(pc = "edit_day" /\ (up_button' \/ down_button')
          /\ date[4] \in 1..days_in_month(date[5], date[6])) =>
         LET last == days_in_month(date[5], date[6])
         IN /\ date'[4] \in 1..last
            /\ (up_button' /\ date[4] = last) => date'[4] = 1
            /\ (~up_button' /\ date[4] = 1) => date'[4] = last]_vars

\* C27: a press in the Month sub-loop, on a month 1..12, gives a month 1..12
\* again: Up from 12 gives 1 and Down from 1 gives 12.
MonthEditStaysInYear ==
    [][(pc = "edit_month" /\ (up_button' \/ down_button')
          /\ date[5] \in 1..12) =>
         /\ date'[5] \in 1..12
         /\ (up_button' /\ date[5] = 12) => date'[5] = 1
         /\ (~up_button' /\ date[5] = 1) => date'[5] = 12]_vars

\* C28: a press in the Minute sub-loop moves the minute by one modulo 60 (Up
\* on 59 gives 0, Down on 0 gives 59) and a press in the Hour sub-loop moves
\* the hour by one modulo 24 (Up on 23 gives 0, Down on 0 gives 23); the
\* press changes no other field of the date the iteration's tick left.
MinuteHourEditWrapsAlone ==
    [][LET t == IF update_date THEN tick_time(date) ELSE date
           moved(old, new, range) ==
               /\ new \in 0..(range - 1)
               /\ new = (old + IF up_button' THEN 1 ELSE range - 1) % range
               /\ (up_button' /\ old = range - 1) => new = 0
               /\ (~up_button' /\ old = 0) => new = range - 1
       IN /\ (pc = "edit_minute" /\ (up_button' \/ down_button')) =>
               /\ moved(t[2], date'[2], 60)
               /\ date' = [t EXCEPT ![2] = date'[2]]
          /\ (pc = "edit_hour" /\ (up_button' \/ down_button')) =>
               /\ moved(t[3], date'[3], 24)
               /\ date' = [t EXCEPT ![3] = date'[3]]]_vars

\* C28 witness: an Up press has taken the minute from 59, where a Down press
\* had put it, back to 0, and the hour is as it was.
MinuteWrappedUp ==
    pc = "edit_minute" /\ up_button /\ presses = 2
    /\ date = <<0, 0, 0, 1, 1, 2000>>

\* C29: the parity flag is false when an edit session is entered and changes
\* on every polling iteration of the session, in whichever sub-field; the
\* calendar is ticked in exactly the iterations that find the flag true, so
\* never in two iterations in a row.
ParityFlagAlternates ==
    [][/\ (pc = "main" /\ pc' # "main") => ~update_date'
       /\ (pc \notin {"main", "panic"}) =>
            /\ update_date' = ~update_date
            /\ (pc \notin DateLoops \/ (~up_button' /\ ~down_button')) =>
                 date' = IF update_date THEN tick_time(date) ELSE date
            /\ ~update_date =>
                 date'[1] = date[1]]_vars

\* C29 witness: the second iteration of a DateTime session, the first of the
\* Hour sub-loop, has ticked the calendar from second 59 into minute 1.
TickedInSecondSubField ==
    pc = "edit_hour" /\ presses = 0 /\ ~update_date
    /\ date = <<0, 1, 0, 1, 1, 2000>>

\* C30: once re-arming the forced mode has failed, the program stays in the
\* alarm-blink loop: vent, sprinkler, preferences and current screen never
\* change again, and the buzzer is switched on and off infinitely often.
BlinkLoopForever ==
    /\ [][pc = "blink" =>
            /\ pc' = "blink"
            /\ UNCHANGED <<roof_vent, sprinklers, temperature, humidity, date,
                           watering, current_screen_index>>]_vars
    /\ [](pc = "blink" => ([]<>buzzer /\ []<>~buzzer))

\* C30 witness: in the blink loop the buzzer, switched on at entry, is off.
BlinkSwitchedOff == pc = "blink" /\ ~buzzer

\* C31: while an edit session is in progress the vent, sprinkler and buzzer
\* outputs keep their values and the fire override is not entered, also with
\* the smoke detector input high.
OutputsFrozenDuringSession ==
    [][(pc \in {"edit_temp", "edit_humidity", "edit_watering"} \cup DateLoops) =>
         /\ UNCHANGED <<roof_vent, sprinklers, buzzer, roof_open>>
         /\ pc' \notin {"alarm", "sense", "blink"}]_vars

\* C31 witness: the second pass of a Temperature session is under way with
\* the smoke detector high, the buzzer silent and the sprinkler off.
SessionRunsUnderFire ==
    pc = "edit_temp" /\ index = 1 /\ smoke_detector /\ ~buzzer /\ ~sprinklers

\* C32: a Select press with Up and Down released ends the current sub-loop:
\* the second one ends a Temperature or Humidity session, the fifth a
\* DateTime session and the fourth a WateringWindow session, as does Up and
\* Down together, and the session ends in Viewing on the same screen.
SessionEndsAfterSelects ==
    [][/\ (select_button' /\ ~up_button' /\ ~down_button') =>
            /\ (pc \in {"edit_temp", "edit_humidity"}) =>
                 IF index = 0 THEN pc' = pc /\ index' = 1 ELSE pc' = "main"
            /\ pc = "edit_minute" => pc' = "edit_hour"
            /\ pc = "edit_hour" => pc' = "edit_day"
            /\ pc = "edit_day" => pc' = "edit_month"
            /\ pc = "edit_month" => pc' = "edit_year"
            /\ pc = "edit_year" => pc' = "main"
            /\ pc = "edit_watering" =>
                 IF index < 3 THEN pc' = pc /\ index' = index + 1 ELSE pc' = "main"
       /\ (pc = "edit_watering" /\ up_button' /\ down_button') => pc' = "main"
       /\ UNCHANGED current_screen_index]_vars

====
